---- MODULE Spec2Model ----
(***************************************************************************)
(* A model of three parts of fenris:                                       *)
(*   - the element assembler combinators of src/assembly/local.rs          *)
(*     (AggregateElementAssembler, MapElementNodes),                       *)
(*   - the log-determinant kernel of fenris-solid/src/logdet.rs,           *)
(*   - the closest-element query of src/interpolate.rs.                    *)
(* Rust indices are 0-based and are kept 0-based in every record of the    *)
(* model; a Rust slice or Vec is a TLA+ sequence, read through At.         *)
(***************************************************************************)
EXTENDS Integers, Sequences, FiniteSets, TLC

VARIABLES
    assemblers,     \* the slice handed to AggregateElementAssembler::from_assemblers
    agg_status,     \* "unbuilt" | "built" | "panicked"
    agg,            \* the fields of the AggregateElementAssembler
    agg_call,       \* the last operation called on the aggregate, and its outcome
    mapped,         \* the assembler wrapped by MapElementNodes
    map_status,     \* "unwrapped" | "wrapped"
    map_nodes,      \* the fields of MapElementNodes other than mapped
    map_call,       \* the last operation called on the MapElementNodes wrapper
    du_dX,          \* the argument of log_det_F
    log_det,        \* what log_det_F returned
    space,          \* the finite element space handed to Interpolator::from_space
    interp_status,  \* "unbuilt" | "built" | "panicked"
    workspace,      \* the Interpolator's davenport::Workspace (a type-keyed cache)
    interp_log,     \* what from_space did, and the index objects made since
    query           \* the last closest-element query, and its outcome

aggVars == <<assemblers, agg_status, agg, agg_call>>
mapVars == <<mapped, map_status, map_nodes, map_call>>
logVars == <<du_dX, log_det>>
interpVars == <<space, interp_status, workspace, interp_log, query>>
vars == <<aggVars, mapVars, logVars, interpVars>>

(***************************************************************************)
(* Bounds of the model.                                                    *)
(***************************************************************************)
MaxAssemblers == 3
MaxElements == 2
MaxOvershoot == 1
MaxMapElements == 2
MaxOffset == 1
MaxEntryNum == 2
MaxGeometries == 2
MaxPoints == 2

\* s[k] of a Rust slice, k counted from 0.
At(s, k) == s[k + 1]

Min(a, b) == IF a < b THEN a ELSE b

(***************************************************************************)
(* Part 1: AggregateElementAssembler (src/src/assembly/local.rs)           *)
(***************************************************************************)

\* What a constituent reports through ElementConnectivityAssembler.
SolutionDims == 1..2
NodeCounts == 2..3
Constituents ==
    [solution_dim : SolutionDims, num_nodes : NodeCounts, num_elements : 0..MaxElements]

AssemblerSlices == UNION {[1..n -> Constituents] : n \in 0..MaxAssemblers}

NoAggregate ==
    [solution_dim |-> 0, num_elements |-> 0, num_nodes |-> 0, element_offsets |-> <<>>]

\* What a constituent answered, when the call reached one.
NoResult == [outcome |-> "none", value |-> <<>>]

NoCall ==
    [op |-> "none", index |-> 0, outcome |-> "none", site |-> "none",
     assembler_idx |-> 0, local_index |-> 0, value |-> 0, result |-> NoResult]

AssembleOps ==
    {"assemble_element_scalar", "assemble_element_vector_into",
     "assemble_element_matrix_into"}

\* The elements whose assembly fails in constituent k (an eyre error): the
\* odd elements of the even constituents and the even ones of the odd.
element_fails(k, element_index) == (k + element_index) % 2 = 1

\* A constituent's own per-element operation. An element index past its
\* elements is an index out of bounds in it (as in the Mesh implementation);
\* an assembly returns Err for a failing element, else Ok with its output.
constituent_call(slice, k, op, element_index) ==
    IF element_index < 0 \/ element_index >= At(slice, k).num_elements
    THEN [outcome |-> "panic", value |-> <<>>]
    ELSE IF op \in AssembleOps /\ element_fails(k, element_index)
    THEN [outcome |-> "Err", value |-> <<op, k, element_index>>]
    ELSE [outcome |-> "Ok", value |-> <<op, k, element_index>>]

\* OffsetsLoop with the two statements of the loop body swapped: the total is
\* pushed after the constituent's count is added.
RECURSIVE OffsetsLoop_PushAfterAdd(_, _, _, _)
OffsetsLoop_PushAfterAdd(slice, k, num_total_elements, element_offsets) ==
    IF k > Len(slice)
    THEN [element_offsets |-> element_offsets, num_total_elements |-> num_total_elements]
    ELSE OffsetsLoop_PushAfterAdd(slice, k + 1,
                     num_total_elements + slice[k].num_elements,
                     Append(element_offsets, num_total_elements + slice[k].num_elements))

\* The loop of from_assemblers: push the running total, then add the
\* constituent's element count.
RECURSIVE OffsetsLoop(_, _, _, _)
OffsetsLoop(slice, k, num_total_elements, element_offsets) ==
    IF k > Len(slice)
    THEN [element_offsets |-> element_offsets, num_total_elements |-> num_total_elements]
    ELSE OffsetsLoop(slice, k + 1,
                     num_total_elements + slice[k].num_elements,
                     Append(element_offsets, num_total_elements))

\* from_assemblers without its third assertion (the one its doc comment does
\* not list): constituents with different num_nodes() are accepted.
from_assemblers_NoNodeCheck(slice) ==
    IF Len(slice) = 0
    THEN [status |-> "panicked", site |-> "empty", offsets_computed |-> 0,
          self |-> NoAggregate]
    ELSE LET solution_dim == At(slice, 0).solution_dim
             num_nodes == At(slice, 0).num_nodes
         IN  IF ~(\A k \in 1..Len(slice) : slice[k].solution_dim = solution_dim)
             THEN [status |-> "panicked", site |-> "solution_dim", offsets_computed |-> 0,
                   self |-> NoAggregate]
             ELSE LET loop == OffsetsLoop(slice, 1, 0, <<>>)
                  IN  [status |-> "built", site |-> "none",
                       offsets_computed |-> Len(loop.element_offsets),
                       self |-> [solution_dim |-> solution_dim,
                                 num_elements |-> loop.num_total_elements,
                                 num_nodes |-> num_nodes,
                                 element_offsets |-> loop.element_offsets]]

\* from_assemblers: the three assertions in their order, then the loop, which
\* computes one offset per constituent; a failed assertion leaves before it.
from_assemblers(slice) ==
    IF Len(slice) = 0
    THEN [status |-> "panicked", site |-> "empty", offsets_computed |-> 0,
          self |-> NoAggregate]
    ELSE LET solution_dim == At(slice, 0).solution_dim
             num_nodes == At(slice, 0).num_nodes
         IN  IF ~(\A k \in 1..Len(slice) : slice[k].solution_dim = solution_dim)
             THEN [status |-> "panicked", site |-> "solution_dim", offsets_computed |-> 0,
                   self |-> NoAggregate]
             ELSE IF ~(\A k \in 1..Len(slice) : slice[k].num_nodes = num_nodes)
             THEN [status |-> "panicked", site |-> "num_nodes", offsets_computed |-> 0,
                   self |-> NoAggregate]
             ELSE LET loop == OffsetsLoop(slice, 1, 0, <<>>)
                  IN  [status |-> "built", site |-> "none",
                       offsets_computed |-> Len(loop.element_offsets),
                       self |-> [solution_dim |-> solution_dim,
                                 num_elements |-> loop.num_total_elements,
                                 num_nodes |-> num_nodes,
                                 element_offsets |-> loop.element_offsets]]

\* slice::binary_search on a sorted slice: Ok(k) for a position k holding x
\* (any one of them when x is repeated: the standard library leaves the choice
\* open, and it differs between releases), else Err(insertion point).
binary_search(s, x) ==
    LET matches == {k \in 0..(Len(s) - 1) : At(s, k) = x}
    IN  IF matches # {}
        THEN {[ok |-> TRUE, idx |-> k] : k \in matches}
        ELSE {[ok |-> FALSE, idx |-> Cardinality({k \in 0..(Len(s) - 1) : At(s, k) < x})]}

\* The range assertion of find_assembler_and_offset_for_element_index.
index_in_range(self, element_index) == element_index <= self.num_elements

\* find_assembler_and_offset_for_element_index taking the insertion point of a
\* failed search as the constituent: Err(idx) => idx.
find_assembler_and_offset_for_element_index_NoDecrement(self, slice, element_index) ==
    IF ~index_in_range(self, element_index)
    THEN {[found |-> FALSE, site |-> "range_assert", assembler_idx |-> 0, element_offset |-> 0]}
    ELSE {LET assembler_idx == r.idx
          IN  IF assembler_idx >= Len(slice)
              THEN [found |-> FALSE, site |-> "index_out_of_bounds",
                    assembler_idx |-> assembler_idx, element_offset |-> 0]
              ELSE [found |-> TRUE, site |-> "none", assembler_idx |-> assembler_idx,
                    element_offset |-> At(self.element_offsets, assembler_idx)]
          : r \in binary_search(self.element_offsets, element_index)}

\* find_assembler_and_offset_for_element_index: the outcomes it can have.
find_assembler_and_offset_for_element_index(self, slice, element_index) ==
    IF ~index_in_range(self, element_index)
    THEN {[found |-> FALSE, site |-> "range_assert", assembler_idx |-> 0, element_offset |-> 0]}
    ELSE {IF ~r.ok /\ r.idx = 0
          THEN [found |-> FALSE, site |-> "idx_underflow", assembler_idx |-> 0, element_offset |-> 0]
          ELSE LET assembler_idx == IF r.ok THEN r.idx ELSE r.idx - 1
               IN  IF assembler_idx >= Len(slice)
                   THEN [found |-> FALSE, site |-> "index_out_of_bounds",
                         assembler_idx |-> assembler_idx, element_offset |-> 0]
                   ELSE [found |-> TRUE, site |-> "none", assembler_idx |-> assembler_idx,
                         element_offset |-> At(self.element_offsets, assembler_idx)]
          : r \in binary_search(self.element_offsets, element_index)}

\* forward keeping the constituent of the call before: when that call was
\* forwarded, this one goes to the same constituent without a search.
forward_Cached(op, self, slice, aggregate_element_index) ==
    IF agg_call.outcome = "forwarded"
    THEN LET local == aggregate_element_index
                        - At(self.element_offsets, agg_call.assembler_idx)
         IN  {[op |-> op, index |-> aggregate_element_index,
               outcome |-> "forwarded", site |-> "none",
               assembler_idx |-> agg_call.assembler_idx, local_index |-> local,
               value |-> 0,
               result |-> constituent_call(slice, agg_call.assembler_idx, op, local)]}
    ELSE UNION {
      IF ~f.found
      THEN {[op |-> op, index |-> aggregate_element_index, outcome |-> "panic",
             site |-> f.site, assembler_idx |-> 0, local_index |-> 0, value |-> 0,
             result |-> NoResult]}
      ELSE LET local == aggregate_element_index - f.element_offset
           IN  {[op |-> op, index |-> aggregate_element_index,
                 outcome |-> "forwarded", site |-> "none",
                 assembler_idx |-> f.assembler_idx, local_index |-> local,
                 value |-> 0,
                 result |-> constituent_call(slice, f.assembler_idx, op, local)]}
      : f \in find_assembler_and_offset_for_element_index(self, slice, aggregate_element_index)}

\* The body shared by the five per-element operations: resolve the index, then
\* call the same operation of the constituent with the local index and return
\* what it returns. A negative difference is the usize subtraction overflowing
\* (a panic in a debug build, a wrapped index in a release build).
forward(op, self, slice, aggregate_element_index) ==
    UNION {
      IF ~f.found
      THEN {[op |-> op, index |-> aggregate_element_index, outcome |-> "panic",
             site |-> f.site, assembler_idx |-> 0, local_index |-> 0, value |-> 0,
             result |-> NoResult]}
      ELSE LET local == aggregate_element_index - f.element_offset
               call == [op |-> op, index |-> aggregate_element_index,
                       outcome |-> "forwarded", site |-> "none",
                       assembler_idx |-> f.assembler_idx, local_index |-> local,
                       value |-> 0,
                       result |-> constituent_call(slice, f.assembler_idx, op, local)]
           IN  IF local < 0
               THEN {call, [call EXCEPT !.outcome = "panic", !.site = "sub_overflow",
                                        !.result = NoResult]}
               ELSE {call}
      : f \in find_assembler_and_offset_for_element_index(self, slice, aggregate_element_index)}

ElementIndices == 0..(MaxAssemblers * MaxElements + MaxOvershoot)

AggInit ==
    /\ assemblers \in AssemblerSlices
    /\ agg_status = "unbuilt"
    /\ agg = NoAggregate
    /\ agg_call = NoCall

FromAssemblers ==
    /\ agg_status = "unbuilt"
    /\ LET r == from_assemblers(assemblers)
       IN  /\ agg_status' = r.status
           /\ agg' = r.self
           /\ agg_call' = [NoCall EXCEPT !.op = "from_assemblers",
                                         !.outcome = IF r.status = "built" THEN "returned" ELSE "panic",
                                         !.site = r.site,
                                         !.value = r.offsets_computed]
    /\ UNCHANGED <<assemblers, mapVars, logVars, interpVars>>

GetterReturn(op, value) ==
    /\ agg_call' = [NoCall EXCEPT !.op = op, !.outcome = "returned", !.value = value]
    /\ UNCHANGED <<assemblers, agg_status, agg, mapVars, logVars, interpVars>>

AggSolutionDim ==
    /\ agg_status = "built"
    /\ GetterReturn("solution_dim", agg.solution_dim)

AggNumElements ==
    /\ agg_status = "built"
    /\ GetterReturn("num_elements", agg.num_elements)

AggNumNodes ==
    /\ agg_status = "built"
    /\ GetterReturn("num_nodes", agg.num_nodes)

PerElement(op) ==
    /\ \E i \in ElementIndices :
          /\ i <= agg.num_elements + MaxOvershoot
          /\ agg_call' \in forward(op, agg, assemblers, i)
    /\ UNCHANGED <<assemblers, agg_status, agg, mapVars, logVars, interpVars>>

AggElementNodeCount ==
    /\ agg_status = "built"
    /\ PerElement("element_node_count")

AggPopulateElementNodes ==
    /\ agg_status = "built"
    /\ PerElement("populate_element_nodes")

AggAssembleElementScalar ==
    /\ agg_status = "built"
    /\ PerElement("assemble_element_scalar")

AggAssembleElementVector ==
    /\ agg_status = "built"
    /\ PerElement("assemble_element_vector_into")

AggAssembleElementMatrix ==
    /\ agg_status = "built"
    /\ PerElement("assemble_element_matrix_into")

AggNext ==
    \/ FromAssemblers
    \/ AggSolutionDim
    \/ AggNumElements
    \/ AggNumNodes
    \/ AggElementNodeCount
    \/ AggPopulateElementNodes
    \/ AggAssembleElementScalar
    \/ AggAssembleElementVector
    \/ AggAssembleElementMatrix

(***************************************************************************)
(* Part 2: MapElementNodes (src/src/assembly/local.rs)                     *)
(***************************************************************************)

\* The wrapped assembler: what it reports, the node indices of each of its
\* elements, and the elements whose assembly returns Err.
NodeIds == 0..1
ElementNodeLists == {<<0>>, <<1>>, <<0, 1>>, <<1, 0>>}
Connectivities == UNION {[1..n -> ElementNodeLists] : n \in 0..MaxMapElements}

MappedAssemblers ==
    UNION {[solution_dim : SolutionDims, num_nodes : {2}, connectivity : {c},
            failing : {{}} \cup {{e} : e \in 0..(Len(c) - 1)}] : c \in Connectivities}

\* The node index functions handed to map_element_nodes: offsets (the identity
\* among them) and a constant function.
MapFunctions ==
    {[n \in NodeIds |-> n + c] : c \in 0..MaxOffset} \cup {[n \in NodeIds |-> 0]}

NoMapNodes == [function |-> [n \in NodeIds |-> n], num_nodes |-> 0]

NoMapCall ==
    [op |-> "none", index |-> 0, outcome |-> "none", value |-> 0, output |-> <<>>]

\* The wrapped assembler's own operations. An element index past its elements
\* is an index out of bounds in it (as in the Mesh implementation).
mapped_solution_dim(m) == m.solution_dim
mapped_num_elements(m) == Len(m.connectivity)
mapped_num_nodes(m) == m.num_nodes

mapped_element_node_count(m, element_index) ==
    IF element_index >= Len(m.connectivity)
    THEN [outcome |-> "panic", value |-> 0]
    ELSE [outcome |-> "returned", value |-> Len(At(m.connectivity, element_index))]

\* copy_from_slice panics when the two lengths differ.
mapped_populate_element_nodes(m, output_len, element_index) ==
    IF element_index >= Len(m.connectivity)
    THEN [outcome |-> "panic", output |-> <<>>]
    ELSE IF output_len # Len(At(m.connectivity, element_index))
    THEN [outcome |-> "panic", output |-> <<>>]
    ELSE [outcome |-> "returned", output |-> At(m.connectivity, element_index)]

\* eyre::Result of an element assembly: Err for a failing element, else the
\* value (the output written) of this operation for this element.
mapped_assemble(m, op, element_index) ==
    IF element_index >= Len(m.connectivity)
    THEN [outcome |-> "panic", value |-> 0]
    ELSE IF element_index \in m.failing
    THEN [outcome |-> "Err", value |-> <<op, element_index>>]
    ELSE [outcome |-> "Ok", value |-> <<op, element_index>>]

\* impl ElementConnectivityAssembler for MapElementNodes
map_solution_dim(self, m) == mapped_solution_dim(m)
map_num_elements(self, m) == mapped_num_elements(m)
map_num_nodes(self, m) == self.num_nodes
map_element_node_count(self, m, element_index) == mapped_element_node_count(m, element_index)

\* populate_element_nodes without the loop that applies the function.
map_populate_element_nodes_Unmapped(self, m, output_len, element_index) ==
    mapped_populate_element_nodes(m, output_len, element_index)

map_populate_element_nodes(self, m, output_len, element_index) ==
    LET inner == mapped_populate_element_nodes(m, output_len, element_index)
    IN  IF inner.outcome = "panic"
        THEN inner
        ELSE [outcome |-> "returned",
              output |-> [p \in 1..Len(inner.output) |-> self.function[inner.output[p]]]]

\* impl Element{Scalar,Vector,Matrix}Assembler for MapElementNodes
map_assemble_element_scalar(self, m, element_index) ==
    mapped_assemble(m, "assemble_element_scalar", element_index)
map_assemble_element_vector_into(self, m, element_index) ==
    mapped_assemble(m, "assemble_element_vector_into", element_index)
map_assemble_element_matrix_into(self, m, element_index) ==
    mapped_assemble(m, "assemble_element_matrix_into", element_index)

MapInit ==
    /\ mapped \in MappedAssemblers
    /\ map_status = "unwrapped"
    /\ map_nodes = NoMapNodes
    /\ map_call = NoMapCall

\* ElementConnectivityAssembler::map_element_nodes(new_num_nodes, f)
MapElementNodesWrap ==
    /\ map_status = "unwrapped"
    /\ \E new_num_nodes \in 2..(2 + MaxOffset), f \in MapFunctions :
          map_nodes' = [function |-> f, num_nodes |-> new_num_nodes]
    /\ map_status' = "wrapped"
    /\ map_call' = [NoMapCall EXCEPT !.op = "map_element_nodes", !.outcome = "returned"]
    /\ UNCHANGED <<mapped, aggVars, logVars, interpVars>>

MapReturn(op, index, r) ==
    /\ map_call' = [op |-> op, index |-> index, outcome |-> r.outcome,
                    value |-> r.value, output |-> <<>>]
    /\ UNCHANGED <<mapped, map_status, map_nodes, aggVars, logVars, interpVars>>

MapSolutionDim ==
    /\ map_status = "wrapped"
    /\ MapReturn("solution_dim", 0,
                 [outcome |-> "returned", value |-> map_solution_dim(map_nodes, mapped)])

MapNumElements ==
    /\ map_status = "wrapped"
    /\ MapReturn("num_elements", 0,
                 [outcome |-> "returned", value |-> map_num_elements(map_nodes, mapped)])

MapNumNodes ==
    /\ map_status = "wrapped"
    /\ MapReturn("num_nodes", 0,
                 [outcome |-> "returned", value |-> map_num_nodes(map_nodes, mapped)])

MapElementIndices == 0..(MaxMapElements + MaxOvershoot)

MapElementNodeCount ==
    /\ map_status = "wrapped"
    /\ \E e \in MapElementIndices :
          /\ e <= Len(mapped.connectivity) + MaxOvershoot
          /\ MapReturn("element_node_count", e, map_element_node_count(map_nodes, mapped, e))

MapPopulateElementNodes ==
    /\ map_status = "wrapped"
    /\ \E e \in MapElementIndices, output_len \in 1..2 :
          /\ e <= Len(mapped.connectivity) + MaxOvershoot
          /\ LET r == map_populate_element_nodes(map_nodes, mapped, output_len, e)
             IN  map_call' = [op |-> "populate_element_nodes", index |-> e,
                              outcome |-> r.outcome, value |-> output_len,
                              output |-> r.output]
    /\ UNCHANGED <<mapped, map_status, map_nodes, aggVars, logVars, interpVars>>

MapAssembleElementScalar ==
    /\ map_status = "wrapped"
    /\ \E e \in MapElementIndices :
          /\ e <= Len(mapped.connectivity) + MaxOvershoot
          /\ MapReturn("assemble_element_scalar", e,
                       map_assemble_element_scalar(map_nodes, mapped, e))

MapAssembleElementVector ==
    /\ map_status = "wrapped"
    /\ \E e \in MapElementIndices :
          /\ e <= Len(mapped.connectivity) + MaxOvershoot
          /\ MapReturn("assemble_element_vector_into", e,
                       map_assemble_element_vector_into(map_nodes, mapped, e))

MapAssembleElementMatrix ==
    /\ map_status = "wrapped"
    /\ \E e \in MapElementIndices :
          /\ e <= Len(mapped.connectivity) + MaxOvershoot
          /\ MapReturn("assemble_element_matrix_into", e,
                       map_assemble_element_matrix_into(map_nodes, mapped, e))

MapNext ==
    \/ MapElementNodesWrap
    \/ MapSolutionDim
    \/ MapNumElements
    \/ MapNumNodes
    \/ MapElementNodeCount
    \/ MapPopulateElementNodes
    \/ MapAssembleElementScalar
    \/ MapAssembleElementVector
    \/ MapAssembleElementMatrix

\* The parts a specification does not exercise stay as constructed.
AggIdle ==
    /\ assemblers = <<>>
    /\ agg_status = "unbuilt"
    /\ agg = NoAggregate
    /\ agg_call = NoCall

MapIdle ==
    /\ mapped = [solution_dim |-> 1, num_nodes |-> 2, connectivity |-> <<>>, failing |-> {}]
    /\ map_status = "unwrapped"
    /\ map_nodes = NoMapNodes
    /\ map_call = NoMapCall

\* No aggregate, or no wrapper, in this run: nothing to construct or to call.
AggAbsent ==
    /\ assemblers = <<>>
    /\ agg_status = "absent"
    /\ agg = NoAggregate
    /\ agg_call = NoCall

MapAbsent ==
    /\ mapped = [solution_dim |-> 1, num_nodes |-> 2, connectivity |-> <<>>, failing |-> {}]
    /\ map_status = "absent"
    /\ map_nodes = NoMapNodes
    /\ map_call = NoMapCall

(***************************************************************************)
(* Part 3: log_det_F (src/fenris-solid/src/logdet.rs)                      *)
(* The scalars are exact rationals <<numerator, denominator>> in lowest    *)
(* terms with a positive denominator, so that the polynomial the code      *)
(* evaluates can be compared with the determinant. ln is an uninterpreted  *)
(* function of its argument, and ln_1p(x) is ln(1 + x).                    *)
(***************************************************************************)
Abs(n) == IF n < 0 THEN -n ELSE n

RECURSIVE Gcd(_, _)
Gcd(a, b) == IF b = 0 THEN a ELSE Gcd(b, a % b)

Rat(n, d) ==
    LET g == Gcd(Abs(n), Abs(d))
        sgn == IF d < 0 THEN -1 ELSE 1
    IN  <<(sgn * n) \div g, (sgn * d) \div g>>

Zero == Rat(0, 1)
One == Rat(1, 1)
a \oplus b == Rat(a[1] * b[2] + b[1] * a[2], a[2] * b[2])
a \ominus b == Rat(a[1] * b[2] - b[1] * a[2], a[2] * b[2])
a \otimes b == Rat(a[1] * b[1], a[2] * b[2])
Gt(a, b) == a[1] * b[2] > b[1] * a[2]

ln(x) == <<"ln", x>>
ln_1p(x) == ln(One \oplus x)

None == [some |-> FALSE, value |-> <<"none", Zero>>]
Some(v) == [some |-> TRUE, value |-> v]

\* The matrices log_det_F is applied to: 1x1 and 2x2 matrices with entries on
\* a grid of halves, 3x3 matrices with entries -1, 0, 1.
HalfEntries == {Rat(k, 2) : k \in (-MaxEntryNum)..MaxEntryNum}
UnitEntries == {Rat(k, 1) : k \in -1..1}
SquareMatrices(d, entries) == [0..(d - 1) -> [0..(d - 1) -> entries]]
DisplacementGradients ==
    {[dim |-> 1, m |-> m] : m \in SquareMatrices(1, HalfEntries)}
    \cup {[dim |-> 2, m |-> m] : m \in SquareMatrices(2, HalfEntries)}
    \cup {[dim |-> 3, m |-> m] : m \in SquareMatrices(3, UnitEntries)}

\* The dimension 1 branch written like the other two: ln_1p of the entry.
log_det_F_1d_Shifted(m) ==
    LET gamma == m[0][0]
    IN  IF Gt(gamma, Zero \ominus One) THEN Some(ln_1p(gamma)) ELSE None

\* The dimension 1 branch of log_det_F.
log_det_F_1d(m) ==
    LET det == m[0][0]
    IN  IF Gt(det, Zero) THEN Some(ln(det)) ELSE None

log_det_F_2d(m) ==
    LET u11 == m[0][0]
        u22 == m[1][1]
        b == m[0][1]
        c == m[1][0]
        gamma == (((u11 \otimes u22) \oplus u11) \oplus u22) \ominus (b \otimes c)
    IN  IF Gt(gamma, Zero \ominus One) THEN Some(ln_1p(gamma)) ELSE None

log_det_F_3d(m) ==
    LET u11 == m[0][0]
        u22 == m[1][1]
        u33 == m[2][2]
        a == One \oplus u11
        e == One \oplus u22
        i == One \oplus u33
        b == m[0][1]
        c == m[0][2]
        d == m[1][0]
        f == m[1][2]
        g == m[2][0]
        h == m[2][1]
        gamma ==
            ((((((((((((u11 \otimes u22) \otimes u33)
                \oplus (u11 \otimes u22))
                \oplus (u11 \otimes u33))
                \oplus (u22 \otimes u33))
                \oplus u11)
                \oplus u22)
                \oplus u33)
                \oplus ((b \otimes f) \otimes g))
                \oplus ((c \otimes d) \otimes h))
                \ominus ((c \otimes e) \otimes g))
                \ominus ((b \otimes d) \otimes i))
                \ominus ((a \otimes f) \otimes h)
    IN  IF Gt(gamma, Zero \ominus One) THEN Some(ln_1p(gamma)) ELSE None

log_det_F(A) ==
    CASE A.dim = 1 -> log_det_F_1d(A.m)
      [] A.dim = 2 -> log_det_F_2d(A.m)
      [] A.dim = 3 -> log_det_F_3d(A.m)

NotCalled == [some |-> FALSE, value |-> <<"not called", Zero>>]

LogInit ==
    /\ du_dX \in DisplacementGradients
    /\ log_det = NotCalled

LogDetF ==
    /\ log_det = NotCalled
    /\ log_det' = log_det_F(du_dX)
    /\ UNCHANGED <<du_dX, aggVars, mapVars, interpVars>>

LogNext == LogDetF

LogIdle ==
    /\ du_dX = [dim |-> 1, m |-> [r \in {0} |-> [c \in {0} |-> Zero]]]
    /\ log_det = NotCalled

(***************************************************************************)
(* Part 4: Interpolator and InterpolateFiniteElementSpace                  *)
(* (src/src/interpolate.rs)                                                *)
(***************************************************************************)

\* Space::GeometryDim::dim() and Space::num_geometries().
GeometryDims == 1..4
Spaces == [dim : GeometryDims, num_geometries : 0..MaxGeometries]

\* space.get_geometry(i).unwrap().bounding_box()
bounding_box(sp, i) == <<"bounding_box", sp.dim, i>>

\* RTreeAccelerationStructure::<D>::from_bounding_boxes: one rectangle per
\* box, each carrying the position of its box in the slice.
from_bounding_boxes(D, D2, boxes) ==
    IF D2 = D
    THEN [outcome |-> "returned",
          value |-> [type |-> <<"RTreeAccelerationStructure", D>>,
                     tree |-> {[geom |-> At(boxes, i), data |-> i] : i \in 0..(Len(boxes) - 1)}]]
    ELSE [outcome |-> "panic", value |-> [type |-> <<"none", 0>>, tree |-> {}]]

\* davenport::Workspace::get_or_insert_with: the closure runs only when the
\* workspace holds no object of the type.
get_or_insert_with(ws, type, made) ==
    IF \E w \in ws : w.type = type THEN ws ELSE ws \cup {made}

\* from_space with the catch-all arm of its match empty: an Interpolator is
\* returned for every dimension, without an index for those other than 2, 3.
from_space_NoDimensionPanic(sp) ==
    LET bounding_boxes == [k \in 1..sp.num_geometries |-> bounding_box(sp, k - 1)]
    IN  IF sp.dim \in {2, 3}
        THEN LET made == from_bounding_boxes(sp.dim, sp.dim, bounding_boxes)
             IN  [status |-> "built", site |-> "none",
                  geometries_enumerated |-> sp.num_geometries,
                  boxes_computed |-> Len(bounding_boxes),
                  index_builds |-> 1,
                  workspace |-> get_or_insert_with({}, made.value.type, made.value)]
        ELSE [status |-> "built", site |-> "none",
              geometries_enumerated |-> sp.num_geometries,
              boxes_computed |-> Len(bounding_boxes),
              index_builds |-> 0,
              workspace |-> {}]

\* Interpolator::from_space: the bounding boxes of all geometries are collected
\* first, then the match on the dimension builds the index or panics.
from_space(sp) ==
    LET bounding_boxes == [k \in 1..sp.num_geometries |-> bounding_box(sp, k - 1)]
    IN  IF sp.dim \in {2, 3}
        THEN LET made == from_bounding_boxes(sp.dim, sp.dim, bounding_boxes)
             IN  [status |-> "built", site |-> "none",
                  geometries_enumerated |-> sp.num_geometries,
                  boxes_computed |-> Len(bounding_boxes),
                  index_builds |-> 1,
                  workspace |-> get_or_insert_with({}, made.value.type, made.value)]
        ELSE [status |-> "panicked", site |-> "unsupported_dimension",
              geometries_enumerated |-> sp.num_geometries,
              boxes_computed |-> Len(bounding_boxes),
              index_builds |-> 0,
              workspace |-> {}]

\* An entry of a result slice: what the caller put there, or what a query wrote.
\* usize::MAX, for which the largest integer of the model stands.
usize_MAX == 2147483647
Sentinel == [element |-> usize_MAX, coords |-> "default"]
Stale == [element |-> usize_MAX - 1, coords |-> "stale"]
Written == [element : 0..1, coords : {"xi"}]

\* A batch operation that walks points and result together, one lookup and one
\* write per pair, and returns: no length check, no todo!().
interp_populate_Zip(sp, ws, points_len, result) ==
    {[outcome |-> "returned", site |-> "none", lookups |-> Min(points_len, Len(result)),
      result |-> [k \in 1..Len(result) |->
                    IF k <= points_len THEN [element |-> 0, coords |-> "xi"] ELSE result[k]],
      workspace |-> ws]}

\* The batch operation with the arm of its match taken in every dimension: each
\* query asks the workspace for a default RTree.
interp_populate_AnyDim(sp, ws, points_len, result) ==
    {[outcome |-> "panic", site |-> "todo", lookups |-> 0, result |-> result,
      workspace |-> get_or_insert_with(ws, <<"RTree", 2>>,
                                       [type |-> <<"RTree", 2>>, tree |-> {}])]}

\* Interpolator::populate_closest_element_and_reference_coords: the workspace
\* is borrowed, the dimension 1 arm asks the workspace for a default RTree, and
\* the body ends in todo!().
interp_populate(sp, ws, points_len, result) ==
    {[outcome |-> "panic", site |-> "todo", lookups |-> 0, result |-> result,
      workspace |-> IF sp.dim = 1
                    THEN get_or_insert_with(ws, <<"RTree", 2>>,
                                            [type |-> <<"RTree", 2>>, tree |-> {}])
                    ELSE ws]}

\* populate_closest_element_and_reference_coords of any other implementor of
\* the trait: the trait declares it without a body, so it may fail or return,
\* having written any of the entries.
other_populate(sp, ws, points_len, result) ==
    {[outcome |-> o, site |-> IF o = "panic" THEN "implementor" ELSE "none",
      lookups |-> 0, result |-> r, workspace |-> ws]
     : o \in {"panic", "returned"},
       r \in {r \in [1..Len(result) -> Written \cup {Sentinel, Stale}] :
                \A k \in 1..Len(result) : r[k] \in Written \/ r[k] = result[k]}}

populate(impl, sp, ws, points_len, result) ==
    IF impl = "Interpolator"
    THEN interp_populate(sp, ws, points_len, result)
    ELSE other_populate(sp, ws, points_len, result)

\* The slices find_closest_element_and_reference_coords hands to the batch
\* operation: array::from_ref(point) and the one-entry result array.
find_points_len == 1
find_result == <<Sentinel>>

\* The provided method returning its own array as initialised, as if the batch
\* operation had been handed a copy.
find_closest_element_and_reference_coords_Copy(impl, sp, ws) ==
    {[outcome |-> b.outcome, site |-> b.site,
      batch_calls |-> <<[points_len |-> find_points_len, result_len |-> Len(find_result)]>>,
      batch |-> b,
      returned |-> find_result[1]]
     : b \in populate(impl, sp, ws, find_points_len, find_result)}

\* InterpolateFiniteElementSpace::find_closest_element_and_reference_coords
\* (the provided method): one batch call, then the entry of the result array.
find_closest_element_and_reference_coords(impl, sp, ws) ==
    {[outcome |-> b.outcome, site |-> b.site,
      batch_calls |-> <<[points_len |-> find_points_len, result_len |-> Len(find_result)]>>,
      batch |-> b,
      returned |-> IF b.outcome = "returned" THEN b.result[1] ELSE Sentinel]
     : b \in populate(impl, sp, ws, find_points_len, find_result)}

NoBatch ==
    [outcome |-> "none", site |-> "none", lookups |-> 0, result |-> <<>>, workspace |-> {}]

NoQuery ==
    [op |-> "none", impl |-> "none", points_len |-> 0, result_len |-> 0,
     outcome |-> "none", site |-> "none", batch_calls |-> <<>>, batch |-> NoBatch,
     returned |-> Sentinel]

Implementors == {"Interpolator", "Other"}

\* The methods of FiniteElementConnectivity and of FiniteElementSpace, which
\* the Interpolator hands to its space.
ConnectivityOps ==
    {"num_elements", "num_nodes", "element_node_count", "populate_element_nodes"}
SpaceOps ==
    {"populate_element_basis", "populate_element_gradients", "element_reference_jacobian",
     "map_element_reference_coords", "diameter"}

\* A delegated method: self.space answers, the workspace is not consulted.
delegate(op, sp, ws) ==
    [outcome |-> "returned", site |-> "none", answer |-> <<op, sp.dim>>, workspace |-> ws]

NoLog ==
    [site |-> "none", geometries_enumerated |-> 0, boxes_computed |-> 0, index_builds |-> 0]

InterpInit ==
    /\ space \in Spaces
    /\ interp_status = "unbuilt"
    /\ workspace = {}
    /\ interp_log = NoLog
    /\ query = NoQuery

FromSpace ==
    /\ interp_status = "unbuilt"
    /\ LET r == from_space(space)
       IN  /\ interp_status' = r.status
           /\ workspace' = r.workspace
           /\ interp_log' = [site |-> r.site,
                             geometries_enumerated |-> r.geometries_enumerated,
                             boxes_computed |-> r.boxes_computed,
                             index_builds |-> r.index_builds]
    /\ query' = NoQuery
    /\ UNCHANGED <<space, aggVars, mapVars, logVars>>

\* A batch query on the Interpolator, or on another implementor of the trait
\* (which has no Interpolator workspace to change).
PopulateClosest(impl) ==
    /\ \E points_len \in 0..MaxPoints, result_len \in 0..MaxPoints :
          \E b \in populate(impl, space, workspace, points_len, [k \in 1..result_len |-> Stale]) :
             /\ query' = [op |-> "populate", impl |-> impl, points_len |-> points_len,
                          result_len |-> result_len, outcome |-> b.outcome, site |-> b.site,
                          batch_calls |-> <<>>, batch |-> b, returned |-> Sentinel]
             /\ workspace' = b.workspace
             /\ interp_log' = [interp_log EXCEPT !.index_builds =
                                  @ + Cardinality(b.workspace \ workspace)]
    /\ UNCHANGED <<space, interp_status, aggVars, mapVars, logVars>>

FindClosest(impl) ==
    /\ \E f \in find_closest_element_and_reference_coords(impl, space, workspace) :
          /\ query' = [op |-> "find", impl |-> impl, points_len |-> 1, result_len |-> 1,
                       outcome |-> f.outcome, site |-> f.site,
                       batch_calls |-> f.batch_calls, batch |-> f.batch,
                       returned |-> f.returned]
          /\ workspace' = f.batch.workspace
          /\ interp_log' = [interp_log EXCEPT !.index_builds =
                               @ + Cardinality(f.batch.workspace \ workspace)]
    /\ UNCHANGED <<space, interp_status, aggVars, mapVars, logVars>>

Delegated(op) ==
    /\ LET d == delegate(op, space, workspace)
       IN  /\ query' = [NoQuery EXCEPT !.op = op, !.impl = "Interpolator",
                                       !.outcome = d.outcome, !.site = d.site]
           /\ workspace' = d.workspace
    /\ UNCHANGED <<space, interp_status, interp_log, aggVars, mapVars, logVars>>

InterpConnectivity ==
    /\ interp_status = "built"
    /\ \E op \in ConnectivityOps : Delegated(op)

InterpSpace ==
    /\ interp_status = "built"
    /\ \E op \in SpaceOps : Delegated(op)

InterpPopulateClosest ==
    /\ interp_status = "built"
    /\ PopulateClosest("Interpolator")

InterpFindClosest ==
    /\ interp_status = "built"
    /\ FindClosest("Interpolator")

OtherPopulateClosest ==
    /\ interp_status \in {"unbuilt", "built", "panicked"}
    /\ PopulateClosest("Other")

OtherFindClosest ==
    /\ interp_status \in {"unbuilt", "built", "panicked"}
    /\ FindClosest("Other")

InterpNext ==
    \/ FromSpace
    \/ InterpConnectivity
    \/ InterpSpace
    \/ InterpPopulateClosest
    \/ InterpFindClosest
    \/ OtherPopulateClosest
    \/ OtherFindClosest

InterpIdle ==
    /\ space = [dim |-> 2, num_geometries |-> 0]
    /\ interp_status = "unbuilt"
    /\ workspace = {}
    /\ interp_log = NoLog
    /\ query = NoQuery

(***************************************************************************)
(* The specifications: one per part, the other parts idle.                 *)
(***************************************************************************)
Init == AggInit /\ MapIdle /\ LogIdle /\ InterpIdle
Next == AggNext
Spec == Init /\ [][Next]_vars

InitMap == AggIdle /\ MapInit /\ LogIdle /\ InterpIdle
SpecMap == InitMap /\ [][MapNext]_vars

InitLogDet == AggIdle /\ MapIdle /\ LogInit /\ InterpIdle
SpecLogDet == InitLogDet /\ [][LogNext]_vars

InitInterp == AggIdle /\ MapIdle /\ LogIdle /\ InterpInit
SpecInterp == InitInterp /\ [][InterpNext]_vars

\* The two wrappers of src/assembly/local.rs: a run has an aggregate or a
\* MapElementNodes, and every operation of the one it has.
InitAggregate == AggInit /\ MapAbsent /\ LogIdle /\ InterpIdle
InitMapped == AggAbsent /\ MapInit /\ LogIdle /\ InterpIdle
InitAssembly == InitAggregate \/ InitMapped
NextAssembly == AggNext \/ MapNext
SpecAssembly == InitAssembly /\ [][NextAssembly]_vars

(***************************************************************************)
(* Properties                                                              *)
(***************************************************************************)
PerElementOps ==
    {"element_node_count", "populate_element_nodes", "assemble_element_scalar",
     "assemble_element_vector_into", "assemble_element_matrix_into"}

\* e_k, the element count of constituent k.
ElementCount(k) == At(assemblers, k).num_elements

\* The constituents whose index range [offsets[k], offsets[k] + e_k) holds i.
Owners(i) ==
    {k \in 0..(Len(assemblers) - 1) :
        /\ At(agg.element_offsets, k) <= i
        /\ i < At(agg.element_offsets, k) + ElementCount(k)}

\* C1: every per-element operation of a built aggregate, called with an
\* aggregate element index i < num_elements(), is forwarded to the one
\* constituent k with offsets[k] <= i < offsets[k] + e_k, with the local index
\* i - offsets[k].
C1_ForwardsToOwner ==
    (/\ agg_status = "built"
     /\ agg_call.op \in PerElementOps
     /\ agg_call.index < agg.num_elements)
    => /\ agg_call.outcome = "forwarded"
       /\ Owners(agg_call.index) = {agg_call.assembler_idx}
       /\ agg_call.local_index
            = agg_call.index - At(agg.element_offsets, agg_call.assembler_idx)

\* C1 restricted to aggregates all of whose constituents have elements.
C1_ForwardsToOwner_PositiveCounts ==
    (\A k \in 0..(Len(assemblers) - 1) : ElementCount(k) > 0) => C1_ForwardsToOwner

\* C2: in a built aggregate, at construction and after any operation,
\* element_offsets has one entry per constituent, offsets[0] = 0,
\* offsets[k] = offsets[k-1] + e_{k-1}, and num_elements() is the sum of the
\* constituents' element counts (the end of the last range).
C2_OffsetsCumulative ==
    agg_status = "built"
    => LET n == Len(assemblers)
       IN  /\ Len(agg.element_offsets) = n
           /\ At(agg.element_offsets, 0) = 0
           /\ \A k \in 1..(n - 1) :
                 At(agg.element_offsets, k)
                   = At(agg.element_offsets, k - 1) + ElementCount(k - 1)
           /\ agg.num_elements = At(agg.element_offsets, n - 1) + ElementCount(n - 1)
           /\ \A i \in 0..(agg.num_elements - 1) : Cardinality(Owners(i)) = 1
           /\ agg_call.op = "num_elements" => agg_call.value = agg.num_elements

C2_Witness ==
    /\ agg_status = "built"
    /\ Len(assemblers) = 3
    /\ \A k \in 0..2 : ElementCount(k) > 0
    /\ agg.element_offsets = <<0, 2, 3>>
    /\ agg_call.op = "assemble_element_matrix_into"
    /\ agg_call.outcome = "forwarded"

\* C3: from_assemblers panics, producing no aggregate, exactly when the slice
\* is empty or two constituents differ in solution_dim() or in num_nodes();
\* otherwise the aggregate reports the common solution_dim() and num_nodes().
C3_ConstructionFailsExactlyOnBadInput ==
    agg_status # "unbuilt"
    => LET n == Len(assemblers)
           bad == \/ n = 0
                  \/ \E j, k \in 1..n : assemblers[j].solution_dim # assemblers[k].solution_dim
                  \/ \E j, k \in 1..n : assemblers[j].num_nodes # assemblers[k].num_nodes
       IN  /\ (agg_status = "panicked") <=> bad
           /\ agg_status = "panicked" => agg = NoAggregate
           /\ agg_status = "built"
              => /\ \A k \in 1..n : /\ agg.solution_dim = assemblers[k].solution_dim
                                    /\ agg.num_nodes = assemblers[k].num_nodes
                 /\ agg_call.op = "solution_dim" => agg_call.value = assemblers[1].solution_dim
                 /\ agg_call.op = "num_nodes" => agg_call.value = assemblers[1].num_nodes

C3_Witness ==
    /\ agg_status = "panicked"
    /\ agg_call.site = "num_nodes"
    /\ Len(assemblers) = 2
    /\ assemblers[1].solution_dim = assemblers[2].solution_dim
    /\ assemblers[1].num_nodes # assemblers[2].num_nodes

\* C4: a MapElementNodes wrapper returns what the wrapped assembler returns
\* for solution_dim(), num_elements(), element_node_count(e) and the three
\* assembly operations; populate_element_nodes writes at each position the
\* function applied to the index the wrapped assembler writes there (the
\* wrapped assembler's own output when the function is the identity);
\* num_nodes() returns new_num_nodes.
C4_MapForwards ==
    map_status = "wrapped"
    => LET op == map_call.op
           e == map_call.index
           got == [outcome |-> map_call.outcome, value |-> map_call.value]
           inner == mapped_populate_element_nodes(mapped, map_call.value, e)
       IN  /\ op = "solution_dim" => map_call.value = mapped.solution_dim
           /\ op = "num_elements" => map_call.value = Len(mapped.connectivity)
           /\ op = "num_nodes" => map_call.value = map_nodes.num_nodes
           /\ op = "element_node_count" => got = mapped_element_node_count(mapped, e)
           /\ op \in {"assemble_element_scalar", "assemble_element_vector_into",
                      "assemble_element_matrix_into"}
              => got = mapped_assemble(mapped, op, e)
           /\ op = "populate_element_nodes"
              => /\ map_call.outcome = inner.outcome
                 /\ Len(map_call.output) = Len(inner.output)
                 /\ \A p \in 1..Len(inner.output) :
                       map_call.output[p] = map_nodes.function[inner.output[p]]
                 /\ (\A n \in NodeIds : map_nodes.function[n] = n)
                    => map_call.output = inner.output

C4_Witness ==
    /\ map_status = "wrapped"
    /\ map_call.op = "populate_element_nodes"
    /\ map_call.outcome = "returned"
    /\ map_call.index = 1
    /\ At(mapped.connectivity, 1) = <<1, 0>>
    /\ map_call.output = <<2, 1>>
    /\ map_nodes.num_nodes # mapped.num_nodes

\* C5: every per-element operation of the aggregate called with an index
\* i >= num_elements() (i = num_elements() included) panics in the aggregate's
\* own range check; nothing is forwarded to a constituent.
C5_OutOfRangeFailsInRangeCheck ==
    (/\ agg_status = "built"
     /\ agg_call.op \in PerElementOps
     /\ agg_call.index >= agg.num_elements)
    => /\ agg_call.outcome = "panic"
       /\ agg_call.site = "range_assert"

\* What the range check does stop: every index past num_elements().
C5_PastTheEndFailsInRangeCheck ==
    (/\ agg_status = "built"
     /\ agg_call.op \in PerElementOps
     /\ agg_call.index > agg.num_elements)
    => /\ agg_call.outcome = "panic"
       /\ agg_call.site = "range_assert"

\* det(I + U) by cofactor expansion along the first row.
Identity(i, j) == IF i = j THEN One ELSE Zero
DeformationGradient(A) ==
    [i \in 0..(A.dim - 1) |-> [j \in 0..(A.dim - 1) |-> Identity(i, j) \oplus A.m[i][j]]]
Det2(F, r1, r2, c1, c2) == (F[r1][c1] \otimes F[r2][c2]) \ominus (F[r1][c2] \otimes F[r2][c1])
Det(dim, F) ==
    CASE dim = 1 -> F[0][0]
      [] dim = 2 -> Det2(F, 0, 1, 0, 1)
      [] dim = 3 -> ((F[0][0] \otimes Det2(F, 1, 2, 1, 2))
                       \ominus (F[0][1] \otimes Det2(F, 1, 2, 0, 2)))
                       \oplus (F[0][2] \otimes Det2(F, 1, 2, 0, 1))

LogOfDetF(A) ==
    LET det == Det(A.dim, DeformationGradient(A))
    IN  IF Gt(det, Zero) THEN Some(ln(det)) ELSE None

\* C6: for U of dimension 1, 2 or 3, log_det_F(U) is ln(det(I + U)) when
\* det(I + U) > 0 and absent when det(I + U) <= 0.
C6_LogDetOfDeformationGradient ==
    log_det # NotCalled => log_det = LogOfDetF(du_dX)

\* C6 in the dimensions 2 and 3 alone.
C6_LogDet_Dim2And3 ==
    (log_det # NotCalled /\ du_dX.dim \in {2, 3}) => log_det = LogOfDetF(du_dX)

C8_FindIsBatchOfOne ==
    query.op = "find"
    => /\ query.batch_calls = <<[points_len |-> 1, result_len |-> 1]>>
       /\ query.batch \in populate(query.impl, space, workspace, 1, <<Sentinel>>)
       /\ (query.outcome = "panic") <=> (query.batch.outcome = "panic")
       /\ (query.outcome = "returned") <=> (query.batch.outcome = "returned")
       /\ query.outcome = "returned" => query.returned = query.batch.result[1]

C8_Witness ==
    /\ query.op = "find"
    /\ query.outcome = "returned"
    /\ query.returned = [element |-> 1, coords |-> "xi"]

\* C9: the Interpolator's batch operation called with an empty points slice
\* and an empty result slice returns normally.
C9_EmptyBatchIsNoOp ==
    (/\ query.op = "populate"
     /\ query.impl = "Interpolator"
     /\ query.points_len = 0
     /\ query.result_len = 0)
    => /\ query.outcome = "returned"
       /\ query.batch.result = <<>>

\* C10: the Interpolator's batch operation called with slices of different
\* lengths panics, with no spatial-index lookup made and no entry of the
\* result slice written.
C10_MismatchedLengthsFailFirst ==
    (/\ query.op = "populate"
     /\ query.impl = "Interpolator"
     /\ query.points_len # query.result_len)
    => /\ query.outcome = "panic"
       /\ query.batch.lookups = 0
       /\ query.batch.result = [k \in 1..query.result_len |-> Stale]

C10_Witness ==
    /\ query.op = "populate"
    /\ query.impl = "Interpolator"
    /\ query.points_len = 2
    /\ query.result_len = 1
    /\ query.outcome = "panic"


\* The spatial index from_space is to leave in the cache: of the space's
\* dimension, one rectangle per geometry, carrying the geometry's index.
SpatialIndex(sp) ==
    [type |-> <<"RTreeAccelerationStructure", sp.dim>>,
     tree |-> {[geom |-> bounding_box(sp, i), data |-> i] : i \in 0..(sp.num_geometries - 1)}]

\* C11: from_space returns an Interpolator exactly when the geometry dimension
\* is 2 or 3, and its cache then holds one index of that dimension with one
\* bounding box per geometry keyed by the geometry's index; for every other
\* dimension, 1 included, it panics with the unsupported-dimension message and
\* there is no interpolator.
C11_FromSpaceSupportsDim2And3 ==
    interp_status # "unbuilt" =>
        /\ interp_status = "built" <=> space.dim \in {2, 3}
        /\ interp_status = "built" =>
              /\ workspace = {SpatialIndex(space)}
              /\ Cardinality(SpatialIndex(space).tree) = space.num_geometries
        /\ interp_status # "built" =>
              /\ interp_status = "panicked"
              /\ interp_log.site = "unsupported_dimension"
              /\ workspace = {}

\* An interpolator over a 3-dimensional space of two geometries has been built.
C11_Witness ==
    /\ interp_status = "built"
    /\ space.dim = 3
    /\ space.num_geometries = MaxGeometries
    /\ \E w \in workspace : Cardinality(w.tree) = MaxGeometries

\* from_space has refused a 1-dimensional space.
C11_WitnessDim1 ==
    /\ interp_status = "panicked"
    /\ space.dim = 1


\* C12: in the life of one Interpolator (from_space, then delegated calls and
\* closest-element queries in any order) the spatial index of its dimension is
\* made exactly once, and the cache keeps holding that index and nothing else:
\* no operation replaces it, removes it or puts another object beside it.
C12_IndexBuiltOnceAndKept ==
    interp_status = "built" =>
        /\ interp_log.index_builds = 1
        /\ Cardinality(workspace) = 1
        /\ \A w \in workspace : w = SpatialIndex(space)

\* A closest-element query has run on a built Interpolator over two geometries.
C12_Witness ==
    /\ interp_status = "built"
    /\ space.num_geometries > 0
    /\ query.impl = "Interpolator"
    /\ query.op \in {"populate", "find"}
    /\ query.site = "todo"

\* A delegated call has run on a built Interpolator.
C12_WitnessDelegated ==
    /\ interp_status = "built"
    /\ query.op \in ConnectivityOps \cup SpaceOps


\* The constituents the search over the offsets can resolve index i to.
SearchPositions(offsets, i) ==
    {IF r.ok THEN r.idx ELSE r.idx - 1 : r \in binary_search(offsets, i)}

\* An element assembly through the aggregate: the wrapper's fields stay, the
\* constituent and the local index follow from the index and the offsets
\* alone, and what the constituent returned is returned.
AggAssemblyStateless ==
    agg_call'.op \in AssembleOps =>
        /\ agg' = agg
        /\ assemblers' = assemblers
        /\ agg_call'.outcome \in {"forwarded", "panic"}
        /\ agg_call'.outcome = "panic" =>
              /\ agg_call'.site = "range_assert"
              /\ agg_call'.index > agg.num_elements
        /\ agg_call'.outcome = "forwarded" =>
              /\ agg_call'.assembler_idx \in SearchPositions(agg.element_offsets, agg_call'.index)
              /\ agg_call'.local_index
                    = agg_call'.index - At(agg.element_offsets, agg_call'.assembler_idx)
              /\ agg_call'.result
                    = constituent_call(assemblers, agg_call'.assembler_idx, agg_call'.op,
                                       agg_call'.local_index)

\* An element assembly through MapElementNodes: the wrapper's fields stay and
\* the wrapped assembler's Result for the same element is returned.
MapAssemblyStateless ==
    map_call'.op \in AssembleOps =>
        /\ map_nodes' = map_nodes
        /\ mapped' = mapped
        /\ map_call'.outcome = mapped_assemble(mapped, map_call'.op, map_call'.index).outcome
        /\ map_call'.value = mapped_assemble(mapped, map_call'.op, map_call'.index).value

\* C13: element assembly through AggregateElementAssembler and through
\* MapElementNodes is stateless: every assemble_element_scalar, _vector_into
\* and _matrix_into call returns the constituent's Result as it is (an Err is a
\* returned value) and leaves the wrapper's fields as they were, so what
\* element j yields does not depend on the calls made before, failed or not.
C13_AssemblyStateless == [][AggAssemblyStateless /\ MapAssemblyStateless]_vars

\* The aggregate has returned a constituent's Err for an element of its second
\* constituent.
C13_Witness ==
    /\ agg_status = "built"
    /\ agg_call.op \in AssembleOps
    /\ agg_call.outcome = "forwarded"
    /\ agg_call.assembler_idx = 1
    /\ agg_call.result.outcome = "Err"

\* MapElementNodes has returned the wrapped assembler's Err.
C13_WitnessMap ==
    /\ map_status = "wrapped"
    /\ map_call.op \in AssembleOps
    /\ map_call.outcome = "Err"


\* from_assemblers has computed no element offset when one of its three
\* assertions fails.
C14_AggregateChecksBeforeOffsets ==
    (agg_call.op = "from_assemblers" /\ agg_call.outcome = "panic") =>
        /\ agg_call.site \in {"empty", "solution_dim", "num_nodes"}
        /\ agg_call.value = 0
        /\ agg.element_offsets = <<>>

\* C14: a construction error is found before any work is done: from_assemblers
\* fails its emptiness, solution-dimension and node-count checks before it
\* computes an element offset, and from_space fails its dimension check before
\* it enumerates a geometry or computes a bounding box.
C14_ChecksBeforeWork ==
    /\ C14_AggregateChecksBeforeOffsets
    /\ interp_status = "panicked" =>
          /\ interp_log.site = "unsupported_dimension"
          /\ interp_log.geometries_enumerated = 0
          /\ interp_log.boxes_computed = 0


\* The slice passes the three assertions of from_assemblers.
Compatible(slice) ==
    /\ Len(slice) > 0
    /\ \A k \in 1..Len(slice) :
          /\ slice[k].solution_dim = slice[1].solution_dim
          /\ slice[k].num_nodes = slice[1].num_nodes

HasEmptyConstituent == \E k \in 0..(Len(assemblers) - 1) : ElementCount(k) = 0

\* C15: from_assemblers does not fail on constituents without elements (the
\* offsets then repeat), and in such an aggregate every index
\* i < num_elements() is still forwarded to a constituent k with e_k > 0 and
\* offsets[k] <= i < offsets[k] + e_k, never to an empty one, whichever of the
\* matching positions the binary search returns.
C15_EmptyConstituentsNeverSelected ==
    /\ (agg_status # "unbuilt" /\ Compatible(assemblers) /\ HasEmptyConstituent)
          => agg_status = "built"
    /\ (/\ agg_status = "built"
        /\ HasEmptyConstituent
        /\ agg_call.op \in PerElementOps
        /\ agg_call.index < agg.num_elements)
       => /\ agg_call.outcome = "forwarded"
          /\ ElementCount(agg_call.assembler_idx) > 0
          /\ At(agg.element_offsets, agg_call.assembler_idx) <= agg_call.index
          /\ agg_call.index < At(agg.element_offsets, agg_call.assembler_idx)
                                + ElementCount(agg_call.assembler_idx)

\* What holds of C15: empty constituents are accepted, and the offsets repeat.
C15_EmptyConstituentsAccepted ==
    (agg_status # "unbuilt" /\ Compatible(assemblers) /\ HasEmptyConstituent)
       => /\ agg_status = "built"
          /\ \A k \in 0..(Len(assemblers) - 2) :
                ElementCount(k) = 0
                   => At(agg.element_offsets, k + 1) = At(agg.element_offsets, k)


\* C16: for an element index that passes the range assertion, the search over
\* element_offsets never ends not-found at insertion point 0 (offsets[0] = 0),
\* so idx - 1 does not underflow; the constituent index is below the number of
\* constituents, so neither assemblers[..] nor element_offsets[..] is indexed
\* out of bounds; and the index minus the offset does not underflow.
C16_ResolutionStaysInBounds ==
    (/\ agg_status = "built"
     /\ agg_call.op \in PerElementOps
     /\ index_in_range(agg, agg_call.index))
    => /\ [ok |-> FALSE, idx |-> 0] \notin binary_search(agg.element_offsets, agg_call.index)
       /\ agg_call.site \notin {"idx_underflow", "index_out_of_bounds", "sub_overflow"}
       /\ agg_call.outcome = "forwarded"
       /\ agg_call.assembler_idx >= 0
       /\ agg_call.assembler_idx < Len(assemblers)
       /\ agg_call.assembler_idx < Len(agg.element_offsets)
       /\ agg_call.local_index >= 0

\* An index that is not among the offsets has been resolved through idx - 1,
\* to the last constituent.
C16_Witness ==
    /\ agg_status = "built"
    /\ agg_call.op \in PerElementOps
    /\ agg_call.outcome = "forwarded"
    /\ \A r \in binary_search(agg.element_offsets, agg_call.index) : ~r.ok
    /\ Len(assemblers) > 1
    /\ agg_call.assembler_idx = Len(assemblers) - 1
    /\ agg_call.local_index > 0

====
